---- MODULE Spec2Model ----
(***************************************************************************)
(* Drift-comparison engine of drift-checker (package engine, package       *)
(* common): compareField / compareMap / compareSlice / compareInstances    *)
(* as operators, and CompareAllInstances as a state machine of the main    *)
(* goroutine, the pool of maxWorkers worker goroutines, the producer       *)
(* goroutine and the closer goroutine over two unbuffered channels.        *)
(*                                                                         *)
(* Go values are modelled as follows.                                      *)
(*   string (scalar fields, ids, field names)   a TLA+ string              *)
(*   string (elements of a []string)            a sequence of byte codes,  *)
(*                                              ordered as sort.Strings    *)
(*                                              orders them                *)
(*   []string                                   [nil, elems]: a nil slice  *)
(*                                              is distinct from an empty  *)
(*                                              one                        *)
(*   map[string]string                          [nil, kv]: a nil map is    *)
(*                                              distinct from an empty one *)
(*   map[string]bool (filter)                   the set of keys mapped to  *)
(*                                              true (common.ToMap builds  *)
(*                                              no other entries); nil and *)
(*                                              empty both have len 0      *)
(*   map[string]FieldDiff                       a function from the set of *)
(*                                              keys to [AWS, Terraform]   *)
(***************************************************************************)
EXTENDS Integers, Sequences, FiniteSets, TLC

VARIABLES
    \* ---- one call of CompareAllInstances ----
    awsInstances,   \* argument: the observed instances, a sequence
    tfInstances,    \* argument: the declared instances, a sequence
    filter,         \* argument: the field filter
    cancelled,      \* ctx.Done() is closed
    mainPc,         \* position of the calling goroutine
    tfMap,          \* the lookup index built from tfInstances
    started,        \* workers launched so far by the start loop
    idle,           \* workers blocked at the select
    sending,        \* sending[p]: workers blocked at resultsCh <- for position p
    exited,         \* workers that returned (wg.Done has run)
    next,           \* producer: position of awsInstances it is blocked sending
    tasksClosed,    \* close(tasks) has run
    resultsClosed,  \* close(resultsCh) has run
    results,        \* the slice being accumulated by the collector
    delivered,      \* delivered[p]: results for position p the collector appended
    dequeued,       \* dequeued[p]: times position p was received from tasks
    panicked,       \* a goroutine panicked (send on closed channel)
    \* ---- one call of a comparison function ----
    awsInst,        \* argument: the observed instance
    tfInst,         \* argument: the declared instance
    cmpFilter,      \* argument: the field filter
    call,           \* which function was called ("none" before the call)
    field,          \* argument field of compareField/compareMap/compareSlice
    out,            \* the out map after compareField/compareMap/compareSlice
    result,         \* the DriftResult returned by compareInstances
    \* ---- one run of the command line (cmd.Run, the Action) ----
    cliPc,          \* position of the Action ("off" outside a run)
    stateFile,      \* the state document at the path of --state-file
    instanceIDs,    \* the ids of --instance-ids, parsed
    attrInput,      \* the string of --attributes
    attributeFilter,\* local: the filter built from attrInput
    loaded,         \* local tfInstances: what tfSvc.Load returned
    fetched,        \* local awsInstances: the instances retrieved so far
    fetchAt,        \* the retrieval loop's position in instanceIDs
    provider,       \* provider[k]: the k-th call of GetInstance succeeds
    cliErr          \* the error the Action returned ("nil" if none)

dvars == <<awsInstances, tfInstances, filter, cancelled, mainPc, tfMap, started,
           idle, sending, exited, next, tasksClosed, resultsClosed, results,
           delivered, dequeued, panicked>>
cvars == <<awsInst, tfInst, cmpFilter, call, field, out, result>>
lvars == <<cliPc, stateFile, instanceIDs, attrInput, attributeFilter, loaded, fetched,
           fetchAt, provider, cliErr>>
vars == <<awsInstances, tfInstances, filter, cancelled, mainPc, tfMap, started,
          idle, sending, exited, next, tasksClosed, resultsClosed, results,
          delivered, dequeued, panicked,
          awsInst, tfInst, cmpFilter, call, field, out, result,
          cliPc, stateFile, instanceIDs, attrInput, attributeFilter, loaded, fetched,
          fetchAt, provider, cliErr>>

----------------------------------------------------------------------------
(* Bounds of the model *)

\* longest observed list handed to CompareAllInstances
MaxObserved == 3
\* longest security-group list and block-device list of an instance
MaxListLen == 2
\* longest list of ids handed to the command line
MaxIds == 2

(* Program constants *)

maxWorkers == 10
\* the byte '|' used by FlattenBlockDevices
Pipe == 124

----------------------------------------------------------------------------
(* Go strings that are sorted: sequences of byte codes *)

RECURSIVE StrLess(_, _)
\* a < b on Go strings: bytewise lexicographic
StrLess(a, b) ==
    IF Len(b) = 0 THEN FALSE
    ELSE IF Len(a) = 0 THEN TRUE
    ELSE IF Head(a) # Head(b) THEN Head(a) < Head(b)
    ELSE StrLess(Tail(a), Tail(b))

RECURSIVE InsertSorted(_, _)
InsertSorted(x, s) ==
    IF Len(s) = 0 THEN <<x>>
    ELSE IF StrLess(Head(s), x) THEN <<Head(s)>> \o InsertSorted(x, Tail(s))
    ELSE <<x>> \o s

RECURSIVE SortElems(_)
SortElems(s) == IF Len(s) = 0 THEN <<>> ELSE InsertSorted(Head(s), SortElems(Tail(s)))

(* Go slices of strings *)

NilSlice == [nil |-> TRUE, elems |-> <<>>]
MkSlice(s) == [nil |-> FALSE, elems |-> s]

\* append(base, xs...): nil only when base is nil and nothing is appended
AppendAll(base, xs) ==
    [nil |-> base.nil /\ Len(xs.elems) = 0, elems |-> base.elems \o xs.elems]

\* sort.Strings left out
SortStringsNoop(s) == s

\* sort.Strings(s), as a value
SortStrings(s) == [nil |-> s.nil, elems |-> SortElems(s.elems)]

\* the two slices compared as sets of elements
SlicesEqualAsSets(a, b) ==
    {a.elems[i] : i \in DOMAIN a.elems} = {b.elems[i] : i \in DOMAIN b.elems}

\* slices.Equal(a, b): same length and same elements, nil-ness ignored
SlicesEqual(a, b) ==
    /\ Len(a.elems) = Len(b.elems)
    /\ \A i \in 1..Len(a.elems) : a.elems[i] = b.elems[i]

(* Go maps of strings *)

NilMap == [nil |-> TRUE, kv |-> [k \in {} |-> ""]]
MkMap(f) == [nil |-> FALSE, kv |-> f]

\* reflect.DeepEqual(a, b) on map[string]string
DeepEqual(a, b) ==
    /\ a.nil = b.nil
    /\ DOMAIN a.kv = DOMAIN b.kv
    /\ \A k \in DOMAIN a.kv : a.kv[k] = b.kv[k]

(* map[string]common.FieldDiff *)

NoDiffs == [k \in {} |-> [AWS |-> "", Terraform |-> ""]]

\* out[field] = common.FieldDiff{AWS: a, Terraform: b}
PutDiff(m, f, a, b) ==
    [k \in (DOMAIN m) \cup {f} |-> IF k = f THEN [AWS |-> a, Terraform |-> b] ELSE m[k]]

----------------------------------------------------------------------------
(* package common *)

RECURSIVE FlattenSeq(_)
FlattenSeq(ds) ==
    IF Len(ds) = 0 THEN <<>>
    ELSE <<Head(ds).DeviceName \o <<Pipe>> \o Head(ds).VolumeID>> \o FlattenSeq(Tail(ds))

\* the flattening with the volume id left out
FlattenBlockDevicesNamesOnly(devices) ==
    MkSlice([i \in DOMAIN devices.elems |-> devices.elems[i].DeviceName])

\* devices is a slice [nil, elems] of [DeviceName, VolumeID] records
FlattenBlockDevices(devices) ==
    IF Len(devices.elems) = 0 THEN MkSlice(<<>>)
    ELSE MkSlice(FlattenSeq(devices.elems))

----------------------------------------------------------------------------
(* package engine: the comparison functions *)

\* the guard with the negation of filter[field] left out
FilteredOutNoNegation(f, flt) == Cardinality(flt) > 0 /\ f \in flt

\* the guard that opens compareField, compareMap and compareSlice
FilteredOut(f, flt) == Cardinality(flt) > 0 /\ f \notin flt

\* compareField with the comparison inverted
compareFieldInverted(f, a, b, flt, m) ==
    IF Cardinality(flt) > 0 /\ f \notin flt THEN m
    ELSE IF a = b THEN PutDiff(m, f, a, b) ELSE m

compareField(f, a, b, flt, m) ==
    IF FilteredOut(f, flt) THEN m
    ELSE IF a # b THEN PutDiff(m, f, a, b) ELSE m

compareMap(f, a, b, flt, m) ==
    IF FilteredOut(f, flt) THEN m
    ELSE IF ~DeepEqual(a, b) THEN PutDiff(m, f, a, b) ELSE m

compareSlice(f, a, b, flt, m) ==
    IF FilteredOut(f, flt) THEN m
    ELSE LET sa == SortStrings(AppendAll(NilSlice, a))
             sb == SortStrings(AppendAll(NilSlice, b))
         IN  IF ~SlicesEqual(sa, sb) THEN PutDiff(m, f, sa, sb) ELSE m

\* shouldCompare without the len(filter) == 0 case
shouldCompareNoEmpty(f, flt) == f \in flt

shouldCompare(f, flt) == Cardinality(flt) = 0 \/ f \in flt

compareInstances(a, t, flt) ==
    LET d1 == compareField("instance_type", a.InstanceType, t.InstanceType, flt, NoDiffs)
        d2 == compareField("image_id", a.ImageID, t.ImageID, flt, d1)
        d3 == compareField("key_name", a.KeyName, t.KeyName, flt, d2)
        d4 == compareField("subnet_id", a.SubnetID, t.SubnetID, flt, d3)
        d5 == compareField("vpc_id", a.VpcID, t.VpcID, flt, d4)
        d6 == compareField("iam_instance_profile", a.IamInstanceProfile,
                           t.IamInstanceProfile, flt, d5)
        d7 == compareField("monitoring", a.Monitoring, t.Monitoring, flt, d6)
        d8 == compareField("architecture", a.Architecture, t.Architecture, flt, d7)
        d9 == compareField("virtualization_type", a.VirtualizationType,
                           t.VirtualizationType, flt, d8)
        d10 == IF shouldCompare("tags", flt) /\ ~DeepEqual(a.Tags, t.Tags)
               THEN compareMap("tags", a.Tags, t.Tags, flt, d9)
               ELSE d9
        awsSg == SortStrings(AppendAll(MkSlice(<<>>), a.SecurityGroups))
        tfSg == SortStrings(AppendAll(MkSlice(<<>>), t.SecurityGroups))
        d11 == IF shouldCompare("security_groups", flt) /\ ~SlicesEqual(awsSg, tfSg)
               THEN compareSlice("security_groups", awsSg, tfSg, flt, d10)
               ELSE d10
        awsBdm == SortStrings(FlattenBlockDevices(a.BlockDeviceMappings))
        tfBdm == SortStrings(FlattenBlockDevices(t.BlockDeviceMappings))
        d12 == IF shouldCompare("block_device_mappings", flt) /\ ~SlicesEqual(awsBdm, tfBdm)
               THEN compareSlice("block_device_mappings", awsBdm, tfBdm, flt, d11)
               ELSE d11
    IN  [InstanceID |-> a.InstanceID,
         DriftDetected |-> Cardinality(DOMAIN d12) > 0,
         Differences |-> d12]

(* What the comparison functions write to the memory of their arguments.
   A backing array is named by where it comes from: "aws.SecurityGroups"
   and "tf.SecurityGroups" are the arrays of the two arguments, "fresh" is
   an array the call allocates, "none" is the array of a slice without
   capacity. sort.Strings sorts the array of its argument in place. *)

\* append without the copy: the result shares the array of xs
AppendArrayNoCopy(base, xs, n) == xs

\* the array of append(base, xs...), base a slice of capacity 0 (a nil slice
\* or []string{}) and xs a slice of length n: the elements are copied into a
\* new array, and base is returned as it is when there is nothing to append
AppendArray(base, xs, n) == IF n = 0 THEN base ELSE "fresh"

\* the arrays compareSlice hands to sort.Strings; a and b are the arrays of
\* its two slices, n and k their lengths
compareSliceSorts(f, a, n, b, k, flt) ==
    IF FilteredOut(f, flt) THEN {}
    ELSE {AppendArray("none", a, n), AppendArray("none", b, k)}

\* the arrays compareInstances hands to sort.Strings, itself or through
\* compareSlice; the flattened block devices are new arrays of strings
compareInstancesSorts(a, t, flt) ==
    LET n == Len(a.SecurityGroups.elems)
        k == Len(t.SecurityGroups.elems)
        awsSgArr == AppendArray("none", "aws.SecurityGroups", n)
        tfSgArr == AppendArray("none", "tf.SecurityGroups", k)
        awsSg == SortStrings(AppendAll(MkSlice(<<>>), a.SecurityGroups))
        tfSg == SortStrings(AppendAll(MkSlice(<<>>), t.SecurityGroups))
        awsBdm == SortStrings(FlattenBlockDevices(a.BlockDeviceMappings))
        tfBdm == SortStrings(FlattenBlockDevices(t.BlockDeviceMappings))
    IN  (IF shouldCompare("security_groups", flt)
         THEN {awsSgArr, tfSgArr} \cup
              (IF ~SlicesEqual(awsSg, tfSg)
               THEN compareSliceSorts("security_groups", awsSgArr, n, tfSgArr, k, flt)
               ELSE {})
         ELSE {})
        \cup
        (IF shouldCompare("block_device_mappings", flt)
         THEN {"fresh"} \cup
              (IF ~SlicesEqual(awsBdm, tfBdm)
               THEN compareSliceSorts("block_device_mappings", "fresh",
                                      Len(awsBdm.elems), "fresh", Len(tfBdm.elems), flt)
               ELSE {})
         ELSE {})

\* the slice sl, whose array is arr, after the arrays of S were sorted
AfterSorts(sl, arr, S) == IF arr \in S THEN SortStrings(sl) ELSE sl

\* the two arguments as compareInstances leaves them
compareInstancesLeaves(a, t, flt) ==
    LET S == compareInstancesSorts(a, t, flt)
    IN  [aws |-> [a EXCEPT !.SecurityGroups = AfterSorts(@, "aws.SecurityGroups", S)],
         tf |-> [t EXCEPT !.SecurityGroups = AfterSorts(@, "tf.SecurityGroups", S)]]

\* the two slices as compareSlice leaves them
compareSliceLeaves(f, a, b, flt) ==
    LET S == compareSliceSorts(f, "aws.SecurityGroups", Len(a.elems),
                               "tf.SecurityGroups", Len(b.elems), flt)
    IN  [aws |-> AfterSorts(a, "aws.SecurityGroups", S),
         tf |-> AfterSorts(b, "tf.SecurityGroups", S)]

----------------------------------------------------------------------------
(* The schema and the inputs the model draws from *)

ScalarFields == {"instance_type", "image_id", "key_name", "subnet_id", "vpc_id",
                 "iam_instance_profile", "monitoring", "architecture",
                 "virtualization_type"}
SchemaFields == ScalarFields \cup {"tags", "security_groups", "block_device_mappings"}

\* common.DefaultDriftAttributes
DefaultDriftAttributes ==
    {"instance_type", "tags", "security_groups", "subnet_id", "image_id", "key_name",
     "monitoring", "iam_instance_profile", "architecture", "virtualization_type",
     "block_device_mappings"}

\* a name that is no schema field (a field of EC2Instance the engine never reads)
UnknownName == "availability_zone"

SeqsUpTo(S, n) == UNION {[1..k -> S] : k \in 0..n}

\* "sg-1", "sg-2"
Sg1 == <<115, 103, 45, 49>>
Sg2 == <<115, 103, 45, 50>>
SgNames == {Sg1, Sg2}
SgLists == {NilSlice} \cup {MkSlice(s) : s \in SeqsUpTo(SgNames, MaxListLen)}

\* "/dev/sda1", "vol-1", "vol-2"
DevSda1 == <<47, 100, 101, 118, 47, 115, 100, 97, 49>>
Vol1 == <<118, 111, 108, 45, 49>>
Vol2 == <<118, 111, 108, 45, 50>>
Devices == {[DeviceName |-> DevSda1, VolumeID |-> Vol1],
            [DeviceName |-> DevSda1, VolumeID |-> Vol2]}
\* "a|" with "b", and "a" with "|b"
PipeDevices == {[DeviceName |-> <<97, Pipe>>, VolumeID |-> <<98>>],
                [DeviceName |-> <<97>>, VolumeID |-> <<Pipe, 98>>]}
BdmLists == {NilSlice} \cup {MkSlice(s) : s \in SeqsUpTo(Devices, MaxListLen)}
PipeBdmLists == {MkSlice(<<d>>) : d \in PipeDevices}

TagMaps == {NilMap,
            MkMap([k \in {} |-> ""]),
            MkMap([k \in {"Name"} |-> "web"]),
            MkMap([k \in {"Name"} |-> "db"]),
            MkMap([k \in {"Env"} |-> "prod"]),
            MkMap([k \in {"Name", "Env"} |-> IF k = "Name" THEN "web" ELSE "prod"])}

\* an EC2Instance whose scalar fields named in D hold their second value
Instance(id, D, tags, sg, bdm) ==
    [InstanceID |-> id,
     InstanceType |-> IF "instance_type" \in D THEN "t3.micro" ELSE "t2.micro",
     ImageID |-> IF "image_id" \in D THEN "ami-1" ELSE "",
     KeyName |-> IF "key_name" \in D THEN "keypair" ELSE "",
     SubnetID |-> IF "subnet_id" \in D THEN "subnet-1" ELSE "",
     VpcID |-> IF "vpc_id" \in D THEN "vpc-1" ELSE "",
     IamInstanceProfile |-> IF "iam_instance_profile" \in D THEN "profile-1" ELSE "",
     Monitoring |-> "monitoring" \in D,
     Architecture |-> IF "architecture" \in D THEN "x86_64" ELSE "",
     VirtualizationType |-> IF "virtualization_type" \in D THEN "hvm" ELSE "",
     Tags |-> tags,
     SecurityGroups |-> sg,
     BlockDeviceMappings |-> bdm]

BaseTags == MkMap([k \in {"Name"} |-> "web"])
BaseSg == MkSlice(<<Sg1, Sg2>>)
BaseBdm == MkSlice(<<[DeviceName |-> DevSda1, VolumeID |-> Vol1]>>)

\* pairs (observed, declared) handed to the comparison functions
ScalarPairs ==
    {<<Instance("i-1", D, BaseTags, BaseSg, BaseBdm), Instance("i-1", E, BaseTags, BaseSg, BaseBdm)>> :
        D \in {{}} \cup {{f} : f \in ScalarFields} \cup {ScalarFields},
        E \in {{}, ScalarFields}}
TagPairs ==
    {<<Instance("i-1", D, a, BaseSg, BaseBdm), Instance("i-1", {}, b, BaseSg, BaseBdm)>> :
        D \in {{}, {"instance_type"}}, a \in TagMaps, b \in TagMaps}
SgPairs ==
    {<<Instance("i-1", D, BaseTags, a, BaseBdm), Instance("i-1", {}, BaseTags, b, BaseBdm)>> :
        D \in {{}, {"instance_type"}}, a \in SgLists, b \in SgLists}
BdmPairs ==
    {<<Instance("i-1", D, BaseTags, BaseSg, a), Instance("i-1", {}, BaseTags, BaseSg, b)>> :
        D \in {{}, {"instance_type"}}, a \in BdmLists \cup PipeBdmLists,
        b \in BdmLists \cup PipeBdmLists}
InstancePairs == ScalarPairs \cup TagPairs \cup SgPairs \cup BdmPairs

Filters ==
    {{}} \cup {{f} : f \in SchemaFields}
         \cup {{UnknownName}, {"instance_type", "tags"}, {"tags", UnknownName},
               {"security_groups", "block_device_mappings"}, DefaultDriftAttributes,
               SchemaFields}

\* field names handed directly to compareField, compareMap and compareSlice
DirectFields == {"instance_type", "tags", "security_groups", UnknownName}

NoResult == [InstanceID |-> "", DriftDetected |-> FALSE, Differences |-> NoDiffs]

----------------------------------------------------------------------------
(* Calls of the comparison functions (specification CmpSpec) *)

CmpIdle ==
    /\ awsInst = Instance("i-1", {}, BaseTags, BaseSg, BaseBdm)
    /\ tfInst = Instance("i-1", {}, BaseTags, BaseSg, BaseBdm)
    /\ cmpFilter = {}
    /\ call = "off"
    /\ field = ""
    /\ out = NoDiffs
    /\ result = NoResult

CmpInit ==
    /\ \E pr \in InstancePairs : awsInst = pr[1] /\ tfInst = pr[2]
    /\ cmpFilter \in Filters
    /\ call = "none"
    /\ field = ""
    /\ out = NoDiffs
    /\ result = NoResult

CallCompareInstances ==
    /\ call = "none"
    /\ call' = "compareInstances"
    /\ result' = compareInstances(awsInst, tfInst, cmpFilter)
    /\ awsInst' = compareInstancesLeaves(awsInst, tfInst, cmpFilter).aws
    /\ tfInst' = compareInstancesLeaves(awsInst, tfInst, cmpFilter).tf
    /\ UNCHANGED <<dvars, lvars, cmpFilter, field, out>>

CallCompareField ==
    /\ call = "none"
    /\ \E f \in DirectFields :
        /\ field' = f
        /\ out' = compareField(f, awsInst.InstanceType, tfInst.InstanceType, cmpFilter, NoDiffs)
    /\ call' = "compareField"
    /\ UNCHANGED <<dvars, lvars, awsInst, tfInst, cmpFilter, result>>

CallCompareMap ==
    /\ call = "none"
    /\ \E f \in DirectFields :
        /\ field' = f
        /\ out' = compareMap(f, awsInst.Tags, tfInst.Tags, cmpFilter, NoDiffs)
    /\ call' = "compareMap"
    /\ UNCHANGED <<dvars, lvars, awsInst, tfInst, cmpFilter, result>>

CallCompareSlice ==
    /\ call = "none"
    /\ \E f \in DirectFields :
        /\ field' = f
        /\ out' = compareSlice(f, awsInst.SecurityGroups, tfInst.SecurityGroups, cmpFilter, NoDiffs)
        /\ LET after == compareSliceLeaves(f, awsInst.SecurityGroups, tfInst.SecurityGroups,
                                           cmpFilter)
           IN  /\ awsInst' = [awsInst EXCEPT !.SecurityGroups = after.aws]
               /\ tfInst' = [tfInst EXCEPT !.SecurityGroups = after.tf]
    /\ call' = "compareSlice"
    /\ UNCHANGED <<dvars, lvars, cmpFilter, result>>

----------------------------------------------------------------------------
(* CompareAllInstances (specification Spec) *)

\* the instances the dispatcher is handed
ObservedPool == {Instance("i-1", {"instance_type"}, BaseTags, MkSlice(<<Sg2, Sg1>>), BaseBdm),
                 Instance("i-2", {}, BaseTags, BaseSg, BaseBdm)}
Declared1Same == Instance("i-1", {"instance_type"}, BaseTags, BaseSg, BaseBdm)
Declared1Diff == Instance("i-1", {}, BaseTags, BaseSg, BaseBdm)
Declared2Diff == Instance("i-2", {"instance_type"}, BaseTags, BaseSg, BaseBdm)
Declared3 == Instance("i-3", {}, BaseTags, BaseSg, BaseBdm)
\* the declared lists: none, one, duplicate ids in both orders, an id that
\* is not observed
DeclaredLists == {<<>>, <<Declared1Same>>, <<Declared1Same, Declared1Diff>>,
                  <<Declared1Diff, Declared1Same>>, <<Declared1Same, Declared2Diff>>,
                  <<Declared2Diff, Declared3>>, <<Declared3>>}
DispatchFilters == {{}, {"instance_type"}, {"tags"}}

Positions == 1..Len(awsInstances)

\* tfMap holds pointers: the element of the declared list that m[id]
\* points to is the one the loop stored for that id (the last position
\* holding the stored instance)
Pointee(s, m, id) ==
    CHOOSE j \in DOMAIN s :
        /\ s[j] = m[id]
        /\ \A k \in DOMAIN s : s[k] = m[id] => k <= j

RECURSIVE IndexOfFirstWins(_)
\* IndexOf, except that an id already in the map is not overwritten
IndexOfFirstWins(s) ==
    IF Len(s) = 0 THEN [id \in {} |-> NoResult]
    ELSE LET m == IndexOfFirstWins(SubSeq(s, 1, Len(s) - 1))
             t == s[Len(s)]
         IN  [id \in (DOMAIN m) \cup {t.InstanceID} |-> IF id \in DOMAIN m THEN m[id] ELSE t]

RECURSIVE IndexOf(_)
\* tfMap after the loop over tfInstances: the last instance of an id wins
IndexOf(s) ==
    IF Len(s) = 0 THEN [id \in {} |-> NoResult]
    ELSE LET m == IndexOf(SubSeq(s, 1, Len(s) - 1))
             t == s[Len(s)]
         IN  [id \in (DOMAIN m) \cup {t.InstanceID} |-> IF id = t.InstanceID THEN t ELSE m[id]]

\* MissingResult with the key of the earlier version of the engine
MissingResultOldKey(a) ==
    [InstanceID |-> a.InstanceID,
     DriftDetected |-> TRUE,
     Differences |-> PutDiff(NoDiffs, "terraform", "exists", "missing")]

\* MissingResult with DriftDetected left at its zero value
MissingResultNoFlag(a) ==
    [InstanceID |-> a.InstanceID,
     DriftDetected |-> FALSE,
     Differences |-> PutDiff(NoDiffs, "terraform_state", "exists", "missing")]

\* the result a worker publishes when its instance has no entry in tfMap
MissingResult(a) ==
    [InstanceID |-> a.InstanceID,
     DriftDetected |-> TRUE,
     Differences |-> PutDiff(NoDiffs, "terraform_state", "exists", "missing")]

\* WorkerResult, except that the terraform_state difference is written
\* through compareField and so passes the filter
WorkerResultFiltered(a, m, flt) ==
    IF a.InstanceID \notin DOMAIN m
    THEN LET d == compareField("terraform_state", "exists", "missing", flt, NoDiffs)
         IN  [InstanceID |-> a.InstanceID,
              DriftDetected |-> Cardinality(DOMAIN d) > 0,
              Differences |-> d]
    ELSE compareInstances(a, m[a.InstanceID], flt)

\* the DriftResult a worker sends for a dequeued instance
WorkerResult(a, m, flt) ==
    IF a.InstanceID \notin DOMAIN m THEN MissingResult(a)
    ELSE compareInstances(a, m[a.InstanceID], flt)

DispatchIdle ==
    /\ awsInstances = <<>>
    /\ tfInstances = <<>>
    /\ filter = {}
    /\ cancelled = FALSE
    /\ mainPc = "none"
    /\ tfMap = IndexOf(<<>>)
    /\ started = 0
    /\ idle = 0
    /\ sending = <<>>
    /\ exited = 0
    /\ next = 1
    /\ tasksClosed = FALSE
    /\ resultsClosed = FALSE
    /\ results = <<>>
    /\ delivered = <<>>
    /\ dequeued = <<>>
    /\ panicked = FALSE

\* the state at entry, for the arguments aws, tf and flt
Entry(aws, tf, flt) ==
    /\ awsInstances = aws
    /\ tfInstances = tf
    /\ filter = flt
    /\ cancelled = FALSE
    /\ mainPc = "index"
    /\ tfMap = IndexOf(<<>>)
    /\ started = 0
    /\ idle = 0
    /\ sending = [p \in 1..Len(aws) |-> 0]
    /\ exited = 0
    /\ next = 1
    /\ tasksClosed = FALSE
    /\ resultsClosed = FALSE
    /\ results = <<>>
    /\ delivered = [p \in 1..Len(aws) |-> 0]
    /\ dequeued = [p \in 1..Len(aws) |-> 0]
    /\ panicked = FALSE

\* more observed instances than workers: maxWorkers + 1 times the same one
Saturating == [p \in 1..(maxWorkers + 1) |-> Instance("i-2", {}, BaseTags, BaseSg, BaseBdm)]

DispatchInit ==
    \/ \E aws \in SeqsUpTo(ObservedPool, MaxObserved), tf \in DeclaredLists,
          flt \in DispatchFilters : Entry(aws, tf, flt)
    \/ Entry(Saturating, <<Declared2Diff>>, {})

\* the producer and the closer goroutines have been launched
Launched == mainPc \in {"collect", "returned"}

\* ctx is cancelled (or its deadline passes) at some point of the call
Cancel ==
    /\ mainPc \in {"index", "spawn", "collect"}
    /\ ~cancelled
    /\ cancelled' = TRUE
    /\ UNCHANGED <<cvars, lvars, awsInstances, tfInstances, filter, mainPc, tfMap, started, idle,
                   sending, exited, next, tasksClosed, resultsClosed, results, delivered,
                   dequeued, panicked>>

\* BuildIndex, except that main also appends, as the earlier version of the
\* engine does, the result of every observed instance without an entry
BuildIndexSyncMissing ==
    /\ mainPc = "index"
    /\ tfMap' = IndexOf(tfInstances)
    /\ mainPc' = "spawn"
    /\ LET m == IndexOf(tfInstances)
           missing == SelectSeq(awsInstances, LAMBDA a : a.InstanceID \notin DOMAIN m)
       IN  results' = [i \in DOMAIN missing |-> MissingResult(missing[i])]
    /\ UNCHANGED <<cvars, lvars, awsInstances, tfInstances, filter, cancelled, started, idle, sending,
                   exited, next, tasksClosed, resultsClosed, delivered, dequeued,
                   panicked>>

\* main: the loop that fills tfMap
BuildIndex ==
    /\ mainPc = "index"
    /\ tfMap' = IndexOf(tfInstances)
    /\ mainPc' = "spawn"
    /\ UNCHANGED <<cvars, lvars, awsInstances, tfInstances, filter, cancelled, started, idle, sending,
                   exited, next, tasksClosed, resultsClosed, results, delivered, dequeued,
                   panicked>>

\* StartWorker, except that the loop runs while i <= maxWorkers
StartWorkerOffByOne ==
    /\ mainPc = "spawn"
    /\ started <= maxWorkers
    /\ started' = started + 1
    /\ idle' = idle + 1
    /\ UNCHANGED <<cvars, lvars, awsInstances, tfInstances, filter, cancelled, mainPc, tfMap, sending,
                   exited, next, tasksClosed, resultsClosed, results, delivered, dequeued,
                   panicked>>

\* main: one round of the loop that starts the pool (wg.Add(1); go worker)
StartWorker ==
    /\ mainPc = "spawn"
    /\ started < maxWorkers
    /\ started' = started + 1
    /\ idle' = idle + 1
    /\ UNCHANGED <<cvars, lvars, awsInstances, tfInstances, filter, cancelled, mainPc, tfMap, sending,
                   exited, next, tasksClosed, resultsClosed, results, delivered, dequeued,
                   panicked>>

\* main: go producer; go closer; enter the range over resultsCh
StartFeedAndCloser ==
    /\ mainPc = "spawn"
    /\ started = maxWorkers
    /\ mainPc' = "collect"
    /\ UNCHANGED <<cvars, lvars, awsInstances, tfInstances, filter, cancelled, tfMap, started, idle,
                   sending, exited, next, tasksClosed, resultsClosed, results, delivered,
                   dequeued, panicked>>

\* worker at the select: case <-ctx.Done(): return
WorkerCancelled ==
    /\ idle > 0
    /\ cancelled
    /\ idle' = idle - 1
    /\ exited' = exited + 1
    /\ UNCHANGED <<cvars, lvars, awsInstances, tfInstances, filter, cancelled, mainPc, tfMap, started,
                   sending, next, tasksClosed, resultsClosed, results, delivered, dequeued,
                   panicked>>

\* WorkerDequeue, except that an instance with no entry in tfMap is skipped
\* without a result (continue before the send)
WorkerDequeueSkipMissing ==
    /\ idle > 0
    /\ Launched
    /\ ~tasksClosed
    /\ next \in Positions
    /\ IF awsInstances[next].InstanceID \in DOMAIN tfMap
       THEN /\ idle' = idle - 1
            /\ sending' = [sending EXCEPT ![next] = @ + 1]
       ELSE UNCHANGED <<idle, sending>>
    /\ dequeued' = [dequeued EXCEPT ![next] = @ + 1]
    /\ next' = next + 1
    /\ UNCHANGED <<cvars, lvars, awsInstances, tfInstances, filter, cancelled, mainPc, tfMap, started,
                   exited, tasksClosed, resultsClosed, results, delivered, panicked>>

\* WorkerDequeue, except that the producer does not move on: the next
\* receive gets the same instance again
WorkerDequeueNoAdvance ==
    /\ idle > 0
    /\ Launched
    /\ ~tasksClosed
    /\ next \in Positions
    /\ idle' = idle - 1
    /\ sending' = [sending EXCEPT ![next] = @ + 1]
    /\ dequeued' = [dequeued EXCEPT ![next] = @ + 1]
    /\ UNCHANGED <<cvars, lvars, awsInstances, tfInstances, filter, cancelled, mainPc, tfMap, started,
                   exited, next, tasksClosed, resultsClosed, results, delivered, panicked>>

\* worker at the select: case awsInst, ok := <-tasks with ok, meeting the
\* producer's tasks <- awsInst; the worker computes its result and moves to
\* the send on resultsCh. Go's select picks among the ready cases at random,
\* so this case is enabled whether or not ctx is cancelled.
WorkerDequeue ==
    /\ idle > 0
    /\ Launched
    /\ ~tasksClosed
    /\ next \in Positions
    /\ idle' = idle - 1
    /\ sending' = [sending EXCEPT ![next] = @ + 1]
    /\ dequeued' = [dequeued EXCEPT ![next] = @ + 1]
    /\ next' = next + 1
    /\ LET id == awsInstances[next].InstanceID
       IN  IF id \in DOMAIN tfMap
           THEN LET after == compareInstancesLeaves(awsInstances[next], tfMap[id], filter)
                IN  /\ awsInstances' = [awsInstances EXCEPT ![next] = after.aws]
                    /\ tfMap' = [tfMap EXCEPT ![id] = after.tf]
                    /\ tfInstances' = [tfInstances EXCEPT ![Pointee(tfInstances, tfMap, id)] = after.tf]
           ELSE UNCHANGED <<awsInstances, tfMap, tfInstances>>
    /\ UNCHANGED <<cvars, lvars, filter, cancelled, mainPc, started,
                   exited, tasksClosed, resultsClosed, results, delivered, panicked>>

\* worker at the select: case awsInst, ok := <-tasks with !ok: return
WorkerTasksClosed ==
    /\ idle > 0
    /\ tasksClosed
    /\ idle' = idle - 1
    /\ exited' = exited + 1
    /\ UNCHANGED <<cvars, lvars, awsInstances, tfInstances, filter, cancelled, mainPc, tfMap, started,
                   sending, next, tasksClosed, resultsClosed, results, delivered, dequeued,
                   panicked>>

\* producer: close(tasks) after the loop over awsInstances
ProducerClose ==
    /\ Launched
    /\ next = Len(awsInstances) + 1
    /\ ~tasksClosed
    /\ tasksClosed' = TRUE
    /\ UNCHANGED <<cvars, lvars, awsInstances, tfInstances, filter, cancelled, mainPc, tfMap, started,
                   idle, sending, exited, next, resultsClosed, results, delivered, dequeued,
                   panicked>>

\* WorkerSend, except that the send is a select with case <-ctx.Done():
\* once ctx is cancelled the worker may return without publishing
WorkerSendOrDone(p) ==
    /\ sending[p] > 0
    /\ sending' = [sending EXCEPT ![p] = @ - 1]
    /\ \/ /\ resultsClosed \/ mainPc = "collect"
          /\ IF resultsClosed
             THEN /\ panicked' = TRUE
                  /\ UNCHANGED <<idle, results, delivered, exited>>
             ELSE /\ results' = Append(results, WorkerResult(awsInstances[p], tfMap, filter))
                  /\ delivered' = [delivered EXCEPT ![p] = @ + 1]
                  /\ idle' = idle + 1
                  /\ UNCHANGED <<panicked, exited>>
       \/ /\ cancelled
          /\ exited' = exited + 1
          /\ UNCHANGED <<idle, results, delivered, panicked>>
    /\ UNCHANGED <<cvars, lvars, awsInstances, tfInstances, filter, cancelled, mainPc, tfMap,
                   started, next, tasksClosed, resultsClosed, dequeued>>

\* WorkerSend, except that the worker computes its result from a variable
\* it shares with the producer's loop: the instance the producer has moved
\* on to, not the one received
WorkerSendShared(p) ==
    /\ sending[p] > 0
    /\ resultsClosed \/ mainPc = "collect"
    /\ sending' = [sending EXCEPT ![p] = @ - 1]
    /\ IF resultsClosed
       THEN /\ panicked' = TRUE
            /\ UNCHANGED <<idle, results, delivered>>
       ELSE /\ LET q == IF next \in Positions THEN next ELSE Len(awsInstances)
               IN  results' = Append(results, WorkerResult(awsInstances[q], tfMap, filter))
            /\ delivered' = [delivered EXCEPT ![p] = @ + 1]
            /\ idle' = idle + 1
            /\ UNCHANGED panicked
    /\ UNCHANGED <<cvars, lvars, awsInstances, tfInstances, filter, cancelled, mainPc, tfMap, started,
                   exited, next, tasksClosed, resultsClosed, dequeued>>

\* worker: resultsCh <- r for position p, meeting the collector's receive and
\* its append; the worker goes back to the select. A send on the closed
\* channel panics.
WorkerSend(p) ==
    /\ sending[p] > 0
    /\ resultsClosed \/ mainPc = "collect"
    /\ sending' = [sending EXCEPT ![p] = @ - 1]
    /\ IF resultsClosed
       THEN /\ panicked' = TRUE
            /\ UNCHANGED <<idle, results, delivered>>
       ELSE /\ results' = Append(results, WorkerResult(awsInstances[p], tfMap, filter))
            /\ delivered' = [delivered EXCEPT ![p] = @ + 1]
            /\ idle' = idle + 1
            /\ UNCHANGED panicked
    /\ UNCHANGED <<cvars, lvars, awsInstances, tfInstances, filter, cancelled, mainPc, tfMap, started,
                   exited, next, tasksClosed, resultsClosed, dequeued>>

\* CloserClose, except that the closer does not wait for the workers
CloserCloseNoWait ==
    /\ Launched
    /\ ~resultsClosed
    /\ resultsClosed' = TRUE
    /\ UNCHANGED <<cvars, lvars, awsInstances, tfInstances, filter, cancelled, mainPc, tfMap,
                   started, idle, sending, exited, next, tasksClosed, results, delivered,
                   dequeued, panicked>>

\* CloserClose, except that the closer also waits for the producer
CloserCloseAfterProducer ==
    /\ Launched
    /\ exited = maxWorkers
    /\ tasksClosed
    /\ ~resultsClosed
    /\ resultsClosed' = TRUE
    /\ UNCHANGED <<cvars, lvars, awsInstances, tfInstances, filter, cancelled, mainPc, tfMap, started,
                   idle, sending, exited, next, tasksClosed, results, delivered, dequeued,
                   panicked>>

\* CloserClose, except that the closer does not wait for the workers once
\* ctx is cancelled
CloserCloseOnCancel ==
    /\ Launched
    /\ exited = maxWorkers \/ cancelled
    /\ ~resultsClosed
    /\ resultsClosed' = TRUE
    /\ UNCHANGED <<cvars, lvars, awsInstances, tfInstances, filter, cancelled, mainPc, tfMap, started,
                   idle, sending, exited, next, tasksClosed, results, delivered, dequeued,
                   panicked>>

\* closer: wg.Wait() returns, close(resultsCh)
CloserClose ==
    /\ Launched
    /\ exited = maxWorkers
    /\ ~resultsClosed
    /\ resultsClosed' = TRUE
    /\ UNCHANGED <<cvars, lvars, awsInstances, tfInstances, filter, cancelled, mainPc, tfMap, started,
                   idle, sending, exited, next, tasksClosed, results, delivered, dequeued,
                   panicked>>

\* CollectorReturn, except that main appends a result for every declared
\* instance whose id no observed instance has
CollectorReturnReportsDeclared ==
    /\ mainPc = "collect"
    /\ resultsClosed
    /\ mainPc' = "returned"
    /\ LET unmatched == SelectSeq(tfInstances,
                            LAMBDA t : \A p \in Positions :
                                            awsInstances[p].InstanceID # t.InstanceID)
       IN  results' = results \o [i \in DOMAIN unmatched |->
                [InstanceID |-> unmatched[i].InstanceID,
                 DriftDetected |-> TRUE,
                 Differences |-> PutDiff(NoDiffs, "aws", "missing", "exists")]]
    /\ UNCHANGED <<cvars, lvars, awsInstances, tfInstances, filter, cancelled, tfMap, started,
                   idle, sending, exited, next, tasksClosed, resultsClosed, delivered,
                   dequeued, panicked>>

\* main: the range over resultsCh ends, return results
CollectorReturn ==
    /\ mainPc = "collect"
    /\ resultsClosed
    /\ mainPc' = "returned"
    /\ UNCHANGED <<cvars, lvars, awsInstances, tfInstances, filter, cancelled, tfMap, started, idle,
                   sending, exited, next, tasksClosed, resultsClosed, results, delivered,
                   dequeued, panicked>>

----------------------------------------------------------------------------
(* The command line (cmd.Run) and the state parser (package terraform) *)

\* no run of the command line
CliIdle ==
    /\ cliPc = "off"
    /\ stateFile = [readable |-> FALSE, valid |-> FALSE, resources |-> <<>>]
    /\ instanceIDs = <<>>
    /\ attrInput = <<>>
    /\ attributeFilter = {}
    /\ loaded = <<>>
    /\ fetched = <<>>
    /\ fetchAt = 1
    /\ provider = <<>>
    /\ cliErr = "nil"

(* Strings of the command line are sequences of symbols: a symbol is a
   name, "," or " ". *)

RECURSIVE Split(_)
\* strings.Split(input, ","): the parts between the commas
Split(input) ==
    IF Len(input) = 0 THEN <<<<>>>>
    ELSE LET rest == Split(Tail(input))
         IN  IF Head(input) = "," THEN <<<<>>>> \o rest
             ELSE <<<<Head(input)>> \o Head(rest)>> \o Tail(rest)

RECURSIVE TrimLeft(_)
TrimLeft(s) == IF Len(s) > 0 /\ Head(s) = " " THEN TrimLeft(Tail(s)) ELSE s
RECURSIVE TrimRight(_)
TrimRight(s) == IF Len(s) > 0 /\ s[Len(s)] = " " THEN TrimRight(SubSeq(s, 1, Len(s) - 1)) ELSE s
\* strings.TrimSpace(part)
TrimSpace(s) == TrimRight(TrimLeft(s))

RECURSIVE TrimmedParts(_)
\* the loop of ParseCommaList: the trimmed parts that are not empty; a part
\* of the inputs holds one name at most
TrimmedParts(parts) ==
    IF Len(parts) = 0 THEN <<>>
    ELSE LET trimmed == TrimSpace(Head(parts))
         IN  (IF trimmed # <<>> THEN <<trimmed[1]>> ELSE <<>>) \o TrimmedParts(Tail(parts))

\* common.ParseCommaList(input)
ParseCommaList(input) == IF input = <<>> THEN <<>> ELSE TrimmedParts(Split(input))

\* common.ToMap(list), as the set of the keys mapped to true
ToMap(list) == {list[i] : i \in DOMAIN list}

RECURSIVE Join(_, _)
\* strings.Join(list, sep)
Join(list, sep) ==
    IF Len(list) = 0 THEN <<>>
    ELSE IF Len(list) = 1 THEN <<list[1]>>
    ELSE <<list[1], sep>> \o Join(Tail(list), sep)

\* common.DefaultDriftAttributes, in the order of the source
DefaultDriftAttributeList ==
    <<"instance_type", "tags", "security_groups", "subnet_id", "image_id", "key_name",
      "monitoring", "iam_instance_profile", "architecture", "virtualization_type",
      "block_device_mappings">>

\* FilterOf without the default for an absent --attributes
FilterOfNoDefault(input) == ToMap(ParseCommaList(input))

\* the filter the Action builds from the --attributes string
FilterOf(input) ==
    ToMap(ParseCommaList(IF input = <<>> THEN Join(DefaultDriftAttributeList, ",")
                                         ELSE input))

(* A state document is [readable, valid, resources]; a resource is
   [Type, Instances], and an instance of the document is its attributes
   [id, D]: D names the scalar attributes that hold their second value. *)

\* the EC2Instance built from the attributes of one instance of the
\* document: no attribute is read into VpcID
FromAttributes(attr) == Instance(attr.id, attr.D \ {"vpc_id"}, BaseTags, BaseSg, BaseBdm)

RECURSIVE InstancesOf(_)
\* the loop over state.Resources: resources of another type are skipped
InstancesOf(resources) ==
    IF Len(resources) = 0 THEN <<>>
    ELSE (IF Head(resources).Type # "aws_instance" THEN <<>>
          ELSE [i \in DOMAIN Head(resources).Instances |->
                    FromAttributes(Head(resources).Instances[i])])
         \o InstancesOf(Tail(resources))

\* parseTerraformState: the instances and the error
parseTerraformState(doc) ==
    IF ~doc.readable THEN [instances |-> <<>>, err |-> "ErrStateFileNotProvided"]
    ELSE IF ~doc.valid THEN [instances |-> <<>>, err |-> "ErrInvalidStateFile"]
    ELSE IF Len(doc.resources) = 0
         THEN [instances |-> <<>>, err |-> "ErrTerraformInstanceMissing"]
    ELSE [instances |-> InstancesOf(doc.resources), err |-> "nil"]

(* The inputs of a run *)

\* what the provider returns for an id it can retrieve
Deployed(id) ==
    Instance(id, {"instance_type", "vpc_id"}, BaseTags, MkSlice(<<Sg2, Sg1>>), BaseBdm)

IdPool == {"i-1", "i-2"}

Bucket == [Type |-> "aws_s3_bucket", Instances |-> <<>>]
\* a resource of another type that has an instance of its own
BucketWithInstance ==
    [Type |-> "aws_s3_bucket", Instances |-> <<[id |-> "i-1", D |-> {}]>>]
InstanceSame ==
    [Type |-> "aws_instance", Instances |-> <<[id |-> "i-1", D |-> {"instance_type", "vpc_id"}]>>]
InstanceDiff ==
    [Type |-> "aws_instance", Instances |-> <<[id |-> "i-1", D |-> {}]>>]
Doc(resources) == [readable |-> TRUE, valid |-> TRUE, resources |-> resources]
StateDocs ==
    {[readable |-> FALSE, valid |-> FALSE, resources |-> <<>>],
     [readable |-> TRUE, valid |-> FALSE, resources |-> <<>>],
     Doc(<<>>), Doc(<<Bucket>>), Doc(<<BucketWithInstance>>),
     Doc(<<InstanceSame>>), Doc(<<Bucket, InstanceDiff>>)}

\* --attributes: absent, one name, two names with a space, separators only
AttrInputs == {<<>>, <<"vpc_id">>, <<"tags", ",", " ", "vpc_id">>, <<" ", ",">>}

CliInit ==
    /\ cliPc = "start"
    /\ stateFile \in StateDocs
    /\ instanceIDs \in SeqsUpTo(IdPool, MaxIds)
    /\ attrInput \in AttrInputs
    /\ attributeFilter = {}
    /\ loaded = <<>>
    /\ fetched = <<>>
    /\ fetchAt = 1
    /\ provider \in [DOMAIN instanceIDs -> BOOLEAN]
    /\ cliErr = "nil"

(* The Action of cmd.Run *)

\* the filter is built and the state file is loaded; an error ends the run
CliLoad ==
    /\ cliPc = "start"
    /\ attributeFilter' = FilterOf(attrInput)
    /\ LET r == parseTerraformState(stateFile)
       IN  IF r.err # "nil"
           THEN /\ cliErr' = r.err
                /\ cliPc' = "failed"
                /\ UNCHANGED loaded
           ELSE /\ loaded' = r.instances
                /\ cliPc' = "fetch"
                /\ UNCHANGED cliErr
    /\ UNCHANGED <<dvars, cvars, stateFile, instanceIDs, attrInput, fetched, fetchAt, provider>>

\* CliFetchFailed, except that the Action returns the error
CliFetchFailedReturns ==
    /\ cliPc = "fetch"
    /\ fetchAt \in DOMAIN instanceIDs
    /\ ~provider[fetchAt]
    /\ cliPc' = "failed"
    /\ cliErr' = "ErrInstanceNotFound"
    /\ UNCHANGED <<dvars, cvars, stateFile, instanceIDs, attrInput, attributeFilter,
                   loaded, fetched, fetchAt, provider>>

\* one round of the retrieval loop: GetInstance fails, the id is skipped
CliFetchFailed ==
    /\ cliPc = "fetch"
    /\ fetchAt \in DOMAIN instanceIDs
    /\ ~provider[fetchAt]
    /\ fetchAt' = fetchAt + 1
    /\ UNCHANGED <<dvars, cvars, cliPc, stateFile, instanceIDs, attrInput, attributeFilter,
                   loaded, fetched, provider, cliErr>>

\* one round of the retrieval loop: GetInstance returns the instance
CliFetchOk ==
    /\ cliPc = "fetch"
    /\ fetchAt \in DOMAIN instanceIDs
    /\ provider[fetchAt]
    /\ fetched' = Append(fetched, Deployed(instanceIDs[fetchAt]))
    /\ fetchAt' = fetchAt + 1
    /\ UNCHANGED <<dvars, cvars, cliPc, stateFile, instanceIDs, attrInput, attributeFilter,
                   loaded, provider, cliErr>>

\* engine.CompareAllInstances(context.Background(), awsInstances,
\* tfInstances, attributeFilter) is entered
CliCompare ==
    /\ cliPc = "fetch"
    /\ fetchAt = Len(instanceIDs) + 1
    /\ mainPc = "none"
    /\ cliPc' = "compare"
    /\ awsInstances' = fetched
    /\ tfInstances' = loaded
    /\ filter' = attributeFilter
    /\ mainPc' = "index"
    /\ sending' = [p \in 1..Len(fetched) |-> 0]
    /\ delivered' = [p \in 1..Len(fetched) |-> 0]
    /\ dequeued' = [p \in 1..Len(fetched) |-> 0]
    /\ UNCHANGED <<cvars, cancelled, tfMap, started, idle, exited, next, tasksClosed,
                   resultsClosed, results, panicked, stateFile, instanceIDs, attrInput,
                   attributeFilter, loaded, fetched, fetchAt, provider, cliErr>>

\* CompareAllInstances has returned; the results are printed, the Action
\* returns nil
CliReport ==
    /\ cliPc = "compare"
    /\ mainPc = "returned"
    /\ cliPc' = "done"
    /\ UNCHANGED <<dvars, cvars, stateFile, instanceIDs, attrInput, attributeFilter, loaded,
                   fetched, fetchAt, provider, cliErr>>

----------------------------------------------------------------------------
(* Specifications *)

Init == DispatchInit /\ CmpIdle /\ CliIdle

Next ==
    \/ Cancel
    \/ BuildIndex
    \/ StartWorker
    \/ StartFeedAndCloser
    \/ WorkerCancelled
    \/ WorkerDequeue
    \/ WorkerTasksClosed
    \/ ProducerClose
    \/ \E p \in Positions : WorkerSend(p)
    \/ CloserClose
    \/ CollectorReturn

Spec == Init /\ [][Next]_vars

CmpSpecInit == CmpInit /\ DispatchIdle /\ CliIdle

CmpNext ==
    \/ CallCompareInstances
    \/ CallCompareField
    \/ CallCompareMap
    \/ CallCompareSlice

CmpSpec == CmpSpecInit /\ [][CmpNext]_vars

\* both kinds of call
EngineSpec == (Init \/ CmpSpecInit) /\ [][Next \/ CmpNext]_vars

\* a step of the main goroutine, a worker, the producer or the closer
GoroutineStep ==
    \/ BuildIndex
    \/ StartWorker
    \/ StartFeedAndCloser
    \/ WorkerCancelled
    \/ WorkerDequeue
    \/ WorkerTasksClosed
    \/ ProducerClose
    \/ \E p \in Positions : WorkerSend(p)
    \/ CloserClose
    \/ CollectorReturn

\* the Go scheduler does not leave every runnable goroutine waiting forever;
\* this is weaker than weak fairness of each goroutine. The cancellation of
\* ctx is up to the caller and has no fairness.
Fairness == WF_vars(GoroutineStep)

\* one observed list of each length, and the saturating one
Alternating(n) ==
    [p \in 1..n |-> IF p % 2 = 1
                    THEN Instance("i-1", {"instance_type"}, BaseTags, MkSlice(<<Sg2, Sg1>>), BaseBdm)
                    ELSE Instance("i-2", {}, BaseTags, BaseSg, BaseBdm)]

FairInit ==
    /\ \/ \E n \in 0..MaxObserved : Entry(Alternating(n), <<Declared1Diff>>, {})
       \/ Entry(Saturating, <<>>, {})
    /\ CmpIdle
    /\ CliIdle

FairSpec == FairInit /\ [][Next]_vars /\ Fairness

\* a run of the command line; its context is context.Background(), which
\* is never cancelled
CliSpecInit == CliInit /\ DispatchIdle /\ CmpIdle

CliNext ==
    \/ CliLoad
    \/ CliFetchFailed
    \/ CliFetchOk
    \/ CliCompare
    \/ CliReport
    \/ BuildIndex
    \/ StartWorker
    \/ StartFeedAndCloser
    \/ WorkerDequeue
    \/ WorkerTasksClosed
    \/ ProducerClose
    \/ \E p \in Positions : WorkerSend(p)
    \/ CloserClose
    \/ CollectorReturn

CliSpec == CliSpecInit /\ [][CliNext]_vars

----------------------------------------------------------------------------
(* Vocabulary of the properties *)

Returned == mainPc = "returned"

\* how many elements of the sequence s satisfy InstanceID = id
IdCount(s, id) == Cardinality({i \in DOMAIN s : s[i].InstanceID = id})
IdsOf(s) == {s[i].InstanceID : i \in DOMAIN s}
DeclaredIds == IdsOf(tfInstances)

\* how many elements of the sequence s equal x
Occurrences(s, x) == Cardinality({i \in DOMAIN s : s[i] = x})
SameMultiset(s, t) ==
    \A x \in {s[i] : i \in DOMAIN s} \cup {t[i] : i \in DOMAIN t} :
        Occurrences(s, x) = Occurrences(t, x)

\* the rearrangements of a slice
PermutationsOf(sl) ==
    LET n == Len(sl.elems)
        Bij == {q \in [1..n -> 1..n] : \A i, j \in 1..n : i # j => q[i] # q[j]}
    IN  {[nil |-> sl.nil, elems |-> [i \in 1..n |-> sl.elems[q[i]]]] : q \in Bij}

\* reflect.DeepEqual on two EC2Instance values (the compared fields and the id)
SliceDeepEqual(a, b) == a.nil = b.nil /\ a.elems = b.elems
InstanceDeepEqual(a, t) ==
    /\ a.InstanceID = t.InstanceID
    /\ a.InstanceType = t.InstanceType /\ a.ImageID = t.ImageID
    /\ a.KeyName = t.KeyName /\ a.SubnetID = t.SubnetID /\ a.VpcID = t.VpcID
    /\ a.IamInstanceProfile = t.IamInstanceProfile /\ a.Monitoring = t.Monitoring
    /\ a.Architecture = t.Architecture /\ a.VirtualizationType = t.VirtualizationType
    /\ DeepEqual(a.Tags, t.Tags)
    /\ SliceDeepEqual(a.SecurityGroups, t.SecurityGroups)
    /\ SliceDeepEqual(a.BlockDeviceMappings, t.BlockDeviceMappings)

IsMissingEntry(r) ==
    /\ r.DriftDetected = TRUE
    /\ DOMAIN r.Differences = {"terraform_state"}
    /\ r.Differences["terraform_state"].AWS = "exists"
    /\ r.Differences["terraform_state"].Terraform = "missing"

ConsistentFlag(r) == r.DriftDetected = (Cardinality(DOMAIN r.Differences) > 0)

\* the schema fields whose two values are unequal: scalars by value, tags by
\* Go's deep equality of maps (a nil map and an empty map are unequal), the
\* two lists as multisets, the block devices after flattening
UnequalFields(a, t) ==
    {f \in {"instance_type"} : a.InstanceType # t.InstanceType}
    \cup {f \in {"image_id"} : a.ImageID # t.ImageID}
    \cup {f \in {"key_name"} : a.KeyName # t.KeyName}
    \cup {f \in {"subnet_id"} : a.SubnetID # t.SubnetID}
    \cup {f \in {"vpc_id"} : a.VpcID # t.VpcID}
    \cup {f \in {"iam_instance_profile"} : a.IamInstanceProfile # t.IamInstanceProfile}
    \cup {f \in {"monitoring"} : a.Monitoring # t.Monitoring}
    \cup {f \in {"architecture"} : a.Architecture # t.Architecture}
    \cup {f \in {"virtualization_type"} : a.VirtualizationType # t.VirtualizationType}
    \cup {f \in {"tags"} : a.Tags.nil # t.Tags.nil \/ a.Tags.kv # t.Tags.kv}
    \cup {f \in {"security_groups"} :
            ~SameMultiset(a.SecurityGroups.elems, t.SecurityGroups.elems)}
    \cup {f \in {"block_device_mappings"} :
            ~SameMultiset(FlattenBlockDevices(a.BlockDeviceMappings).elems,
                          FlattenBlockDevices(t.BlockDeviceMappings).elems)}

----------------------------------------------------------------------------
(* Properties *)

\* C1. Completeness without cancellation: when CompareAllInstances returns
\* and ctx was never cancelled, it returns as many results as there are
\* observed instances, and every id occurs in the results as often as in the
\* observed list (duplicate ids included), whatever the interleaving.
Completeness ==
    (Returned /\ ~cancelled) =>
        /\ Len(results) = Len(awsInstances)
        /\ \A id \in IdsOf(results) \cup IdsOf(awsInstances) :
              IdCount(results, id) = IdCount(awsInstances, id)

\* a run without cancellation returned, for an observed list with a repeated
\* id of which one has no declared counterpart list at all
CompletenessWitness ==
    /\ Returned /\ ~cancelled
    /\ Len(awsInstances) = MaxObserved
    /\ awsInstances[1].InstanceID = awsInstances[2].InstanceID
    /\ IdsOf(awsInstances) \ DeclaredIds # {}
    /\ IdsOf(awsInstances) \cap DeclaredIds # {}

\* C2. Termination: under weak fairness of the main goroutine, the workers,
\* the producer and the closer, every call returns, whether ctx is never
\* cancelled, is cancelled at entry or is cancelled at any later point, for
\* no observed instance, a few, and more than maxWorkers.
Termination == <>Returned

\* a cancelled call of more observed instances than workers returned with a
\* part of the results
TerminationWitness ==
    /\ Returned /\ cancelled
    /\ Len(awsInstances) > maxWorkers
    /\ Len(results) > 0 /\ Len(results) < Len(awsInstances)

\* C3. Missing-counterpart detection: every result whose id is the id of no
\* declared instance has DriftDetected = true and exactly one difference,
\* keyed "terraform_state", with AWS value "exists" and Terraform value
\* "missing".
MissingCounterpart ==
    \A i \in DOMAIN results :
        results[i].InstanceID \notin DeclaredIds => IsMissingEntry(results[i])

\* a call returned a result for an undeclared id under a filter that names
\* another field, next to a compared result
MissingCounterpartWitness ==
    /\ Returned
    /\ filter = {"instance_type"}
    /\ \E i, j \in DOMAIN results :
        /\ results[i].InstanceID \notin DeclaredIds
        /\ results[j].InstanceID \in DeclaredIds

\* C4. Cancellation yields a possibly short list, never a fault: no goroutine
\* panics, and the list returned is no longer than the observed list and
\* holds every id at most as often as the observed list does.
ShortListNoFault ==
    /\ ~panicked
    /\ Returned =>
        /\ Len(results) <= Len(awsInstances)
        /\ \A id \in IdsOf(results) : IdCount(results, id) <= IdCount(awsInstances, id)

\* a cancelled call returned a list that is short but not empty
ShortListWitness ==
    /\ Returned /\ cancelled
    /\ Len(awsInstances) = MaxObserved
    /\ Len(results) > 0 /\ Len(results) < Len(awsInstances)

\* C5. Cancellation is honoured at every dequeue: once ctx is cancelled no
\* worker receives another task.
NoDequeueAfterCancel == [][cancelled => dequeued' = dequeued]_vars

\* C6. DriftResult invariant: DriftDetected = (len(Differences) > 0) in every
\* result of compareInstances and in every result collected by
\* CompareAllInstances.
FlagMatchesDifferences ==
    /\ ConsistentFlag(result)
    /\ \A i \in DOMAIN results : ConsistentFlag(results[i])

\* a call returned a missing-counterpart result and a compared result
\* without a difference
FlagMatchesDifferencesWitness ==
    /\ Returned
    /\ filter = {}
    /\ \E i, j \in DOMAIN results :
        /\ IsMissingEntry(results[i])
        /\ ~results[j].DriftDetected

\* C7. Idempotence: compareInstances on two deep-equal instances returns
\* DriftDetected = false and no difference, for every filter.
Idempotence ==
    (call = "compareInstances" /\ InstanceDeepEqual(awsInst, tfInst)) =>
        /\ ~result.DriftDetected
        /\ DOMAIN result.Differences = {}

\* compareInstances was called on two deep-equal instances with nil tags
\* under a filter of an unknown name
IdempotenceWitness ==
    /\ call = "compareInstances"
    /\ InstanceDeepEqual(awsInst, tfInst)
    /\ awsInst.Tags.nil
    /\ cmpFilter = {UnknownName}

\* C8. Order independence: rearranging the security groups or the block
\* devices of either instance leaves the result of compareInstances as it
\* is: same flag, same keys, same stored values.
OrderIndependence ==
    call = "compareInstances" =>
        \A asg \in PermutationsOf(awsInst.SecurityGroups),
           tsg \in PermutationsOf(tfInst.SecurityGroups),
           abd \in PermutationsOf(awsInst.BlockDeviceMappings),
           tbd \in PermutationsOf(tfInst.BlockDeviceMappings) :
            LET r == compareInstances(
                        [awsInst EXCEPT !.SecurityGroups = asg, !.BlockDeviceMappings = abd],
                        [tfInst EXCEPT !.SecurityGroups = tsg, !.BlockDeviceMappings = tbd],
                        cmpFilter)
            IN  /\ r.DriftDetected = result.DriftDetected
                /\ DOMAIN r.Differences = DOMAIN result.Differences
                /\ \A f \in DOMAIN r.Differences : r.Differences[f] = result.Differences[f]

\* compareInstances was called with the security groups in different orders
\* on the two sides and reported no difference for them
OrderIndependenceWitness ==
    /\ call = "compareInstances"
    /\ cmpFilter = {}
    /\ awsInst.SecurityGroups.elems = <<Sg2, Sg1>>
    /\ tfInst.SecurityGroups.elems = <<Sg1, Sg2>>
    /\ "security_groups" \notin DOMAIN result.Differences

\* C9. Filter restriction: under a non-empty filter, no schema field outside
\* the filter is a key of the differences of compareInstances or of the out
\* map of compareField, compareMap and compareSlice.
FilterRestriction ==
    cmpFilter # {} =>
        \A f \in SchemaFields \ cmpFilter :
            /\ f \notin DOMAIN result.Differences
            /\ f \notin DOMAIN out

\* compareInstances was called under the filter {tags} on instances whose
\* tags and instance types differ, and reported the tags alone
FilterRestrictionWitness ==
    /\ call = "compareInstances"
    /\ cmpFilter = {"tags"}
    /\ awsInst.InstanceType # tfInst.InstanceType
    /\ DOMAIN result.Differences = {"tags"}

UnknownNameNoEffect ==
    call = "compareInstances" =>
        LET r == compareInstances(awsInst, tfInst, cmpFilter \cup {UnknownName})
        IN  /\ r.DriftDetected = result.DriftDetected
            /\ DOMAIN r.Differences = DOMAIN result.Differences
            /\ \A f \in DOMAIN r.Differences : r.Differences[f] = result.Differences[f]

\* C12. Absent values compare as zero values: compareInstances reports no
\* "tags" difference when neither tag map has an entry (nil or empty), no
\* "security_groups" and no "block_device_mappings" difference when neither
\* list has an element (nil or empty), and no difference for a scalar field
\* that is "" or false on both sides.
AbsentIsZero ==
    call = "compareInstances" =>
        /\ (DOMAIN awsInst.Tags.kv = {} /\ DOMAIN tfInst.Tags.kv = {}) =>
                "tags" \notin DOMAIN result.Differences
        /\ (awsInst.SecurityGroups.elems = <<>> /\ tfInst.SecurityGroups.elems = <<>>) =>
                "security_groups" \notin DOMAIN result.Differences
        /\ (awsInst.BlockDeviceMappings.elems = <<>> /\ tfInst.BlockDeviceMappings.elems = <<>>) =>
                "block_device_mappings" \notin DOMAIN result.Differences
        /\ (awsInst.KeyName = "" /\ tfInst.KeyName = "") =>
                "key_name" \notin DOMAIN result.Differences
        /\ (~awsInst.Monitoring /\ ~tfInst.Monitoring) =>
                "monitoring" \notin DOMAIN result.Differences

\* some key is present on one side only or has different values
KeysDiffer(a, b) ==
    \/ DOMAIN a.kv # DOMAIN b.kv
    \/ \E k \in DOMAIN a.kv \cap DOMAIN b.kv : a.kv[k] # b.kv[k]

\* C13. Map equality for tags: when "tags" passes the filter,
\* compareInstances and compareMap write a "tags" difference if and only if
\* some key is on one side only or has different values, and the difference
\* holds the two complete maps.
TagsDiffIffKeysDiffer ==
    /\ (call = "compareInstances" /\ shouldCompare("tags", cmpFilter)) =>
        /\ "tags" \in DOMAIN result.Differences <=> KeysDiffer(awsInst.Tags, tfInst.Tags)
        /\ "tags" \in DOMAIN result.Differences =>
            /\ result.Differences["tags"].AWS = awsInst.Tags
            /\ result.Differences["tags"].Terraform = tfInst.Tags
    /\ (call = "compareMap" /\ ~FilteredOut(field, cmpFilter)) =>
        /\ field \in DOMAIN out <=> KeysDiffer(awsInst.Tags, tfInst.Tags)
        /\ field \in DOMAIN out =>
            /\ out[field].AWS = awsInst.Tags
            /\ out[field].Terraform = tfInst.Tags

\* s is in ascending bytewise order
IsSorted(s) == \A i, j \in DOMAIN s : i < j => ~StrLess(s[j], s[i])

\* C14. compareSlice is a multiset comparison with sorted output: when the
\* field passes the filter it writes a difference if and only if the two
\* lists differ as multisets, and the two stored values are the sorted forms
\* of the inputs with every element kept.
MultisetComparison ==
    (call = "compareSlice" /\ ~FilteredOut(field, cmpFilter)) =>
        /\ field \in DOMAIN out <=>
                ~SameMultiset(awsInst.SecurityGroups.elems, tfInst.SecurityGroups.elems)
        /\ field \in DOMAIN out =>
            /\ IsSorted(out[field].AWS.elems)
            /\ IsSorted(out[field].Terraform.elems)
            /\ SameMultiset(out[field].AWS.elems, awsInst.SecurityGroups.elems)
            /\ SameMultiset(out[field].Terraform.elems, tfInst.SecurityGroups.elems)

\* compareSlice was called on an unsorted list and a list that repeats one
\* of its elements, and stored the sorted forms
MultisetComparisonWitness ==
    /\ call = "compareSlice"
    /\ field = "security_groups"
    /\ awsInst.SecurityGroups.elems = <<Sg2, Sg1>>
    /\ tfInst.SecurityGroups.elems = <<Sg1, Sg1>>
    /\ field \in DOMAIN out
    /\ out[field].AWS.elems = <<Sg1, Sg2>>
    /\ out[field].Terraform.elems = <<Sg1, Sg1>>

\* the flattened representation of a block-device list: one string
\* device_name + "|" + volume_id for each pair, in the order of the list
FlatOf(devices) ==
    [i \in DOMAIN devices.elems |->
        devices.elems[i].DeviceName \o <<Pipe>> \o devices.elems[i].VolumeID]
ElemSet(s) == {s[i] : i \in DOMAIN s}

\* C15 as stated. Block-device comparison: when the field passes the filter,
\* compareInstances reports no "block_device_mappings" difference if and
\* only if the flattened representations of the two lists are equal as
\* unordered sets.
BlockDevicesEqualAsSets ==
    (call = "compareInstances" /\ shouldCompare("block_device_mappings", cmpFilter)) =>
        ("block_device_mappings" \notin DOMAIN result.Differences <=>
            ElemSet(FlatOf(awsInst.BlockDeviceMappings))
                = ElemSet(FlatOf(tfInst.BlockDeviceMappings)))

\* C15, amended. Block-device comparison: when the field passes the filter,
\* compareInstances reports no "block_device_mappings" difference if and
\* only if the flattened representations of the two lists are equal as
\* unordered multisets: a pair repeated on one side only is a difference.
BlockDevicesEqualAsMultisets ==
    (call = "compareInstances" /\ shouldCompare("block_device_mappings", cmpFilter)) =>
        ("block_device_mappings" \notin DOMAIN result.Differences <=>
            SameMultiset(FlatOf(awsInst.BlockDeviceMappings),
                         FlatOf(tfInst.BlockDeviceMappings)))

\* compareInstances was called under the filter {block_device_mappings} on
\* the same two pairs in different orders and reported no difference
BlockDevicesWitness ==
    /\ call = "compareInstances"
    /\ cmpFilter = {"block_device_mappings"}
    /\ Len(awsInst.BlockDeviceMappings.elems) = 2
    /\ awsInst.BlockDeviceMappings.elems[1] # awsInst.BlockDeviceMappings.elems[2]
    /\ tfInst.BlockDeviceMappings.elems =
            <<awsInst.BlockDeviceMappings.elems[2], awsInst.BlockDeviceMappings.elems[1]>>
    /\ "block_device_mappings" \notin DOMAIN result.Differences

RECURSIVE SumOver(_, _)
\* the sum of f over the set S of its arguments
SumOver(f, S) ==
    IF S = {} THEN 0
    ELSE LET x == CHOOSE y \in S : TRUE
         IN  f[x] + SumOver(f, S \ {x})

\* the positions of the observed instances that have no declared counterpart
MissingPositions == {p \in Positions : awsInstances[p].InstanceID \notin DeclaredIds}
MissingEntries == {i \in DOMAIN results : IsMissingEntry(results[i])}

\* C16 as stated. Missing-counterpart results are produced synchronously by
\* the dispatcher: an observed instance with no declared counterpart is
\* never dequeued from the task queue and never occupies a worker, and once
\* the pool is launched its result is in the list whatever the workers do.
MissingProducedSynchronously ==
    /\ \A p \in MissingPositions : dequeued[p] = 0 /\ sending[p] = 0
    /\ Launched => Cardinality(MissingEntries) = Cardinality(MissingPositions)

\* C16, amended. Missing-counterpart results are produced by the pool: the
\* dispatcher appends nothing before the pool is launched, and every
\* missing-counterpart result in the list was sent by a worker that had
\* dequeued the instance from the task queue.
MissingProducedByWorkers ==
    /\ ~Launched => results = <<>>
    /\ \A p \in MissingPositions : delivered[p] <= dequeued[p]
    /\ Cardinality(MissingEntries) = SumOver(delivered, MissingPositions)

\* one instance without a declared counterpart occupies a worker while the
\* result of another one is already in the list
MissingProducedByWorkersWitness ==
    /\ mainPc = "collect"
    /\ \E p, q \in MissingPositions :
        /\ sending[p] = 1
        /\ delivered[q] = 1
    /\ MissingEntries # {}

\* the tasks dequeued by a worker whose result the collector has not received
InFlight == SumOver([p \in Positions |-> dequeued[p] - delivered[p]], Positions)

\* C17. Bounded parallelism: at most maxWorkers tasks are dequeued and not
\* yet collected, however many instances are observed; never more than
\* maxWorkers workers are started, and exactly maxWorkers are running when
\* the producer is launched, even for fewer observed instances.
BoundedParallelism ==
    /\ InFlight <= maxWorkers
    /\ started <= maxWorkers
    /\ Launched => started = maxWorkers

\* more instances than workers are observed, every worker holds a task and
\* the producer waits with the next one
BoundedParallelismWitness ==
    /\ Len(awsInstances) > maxWorkers
    /\ InFlight = maxWorkers
    /\ next = maxWorkers + 1
    /\ idle = 0

\* C18. At-most-once processing: with or without cancellation, every
\* position of the observed list is dequeued at most once and contributes
\* at most one result, and the list holds nothing but these results.
AtMostOnce ==
    /\ \A p \in Positions : dequeued[p] <= 1 /\ delivered[p] <= dequeued[p]
    /\ Len(results) = SumOver(delivered, Positions)
    /\ \A id \in IdsOf(results) : IdCount(results, id) <= IdCount(awsInstances, id)

\* a cancelled call returned with one position processed once and another
\* one never dequeued
AtMostOnceWitness ==
    /\ Returned /\ cancelled
    /\ \E p, q \in Positions :
        /\ dequeued[p] = 1 /\ delivered[p] = 1
        /\ dequeued[q] = 0 /\ delivered[q] = 0

\* the declared instance that occurs last with the given id
LastDeclared(id) ==
    tfInstances[CHOOSE j \in DOMAIN tfInstances :
        /\ tfInstances[j].InstanceID = id
        /\ \A k \in DOMAIN tfInstances : tfInstances[k].InstanceID = id => k <= j]

\* the result the inputs determine for position p of the observed list
ExpectedResult(p) ==
    IF awsInstances[p].InstanceID \in DeclaredIds
    THEN compareInstances(awsInstances[p], LastDeclared(awsInstances[p].InstanceID), filter)
    ELSE [InstanceID |-> awsInstances[p].InstanceID,
          DriftDetected |-> TRUE,
          Differences |-> [k \in {"terraform_state"} |->
                                [AWS |-> "exists", Terraform |-> "missing"]]]

\* C19. Determinism up to order: a call that returns without cancellation
\* returns, under every interleaving, the multiset of results its inputs
\* determine (same ids, same flags, same differences); only the order of
\* the list varies.
DeterministicUpToOrder ==
    (Returned /\ ~cancelled) =>
        SameMultiset(results, [p \in Positions |-> ExpectedResult(p)])

\* a call without cancellation returned its results in an order that is
\* not the order of the observed list
DeterministicUpToOrderWitness ==
    /\ Returned /\ ~cancelled
    /\ Len(results) = Len(awsInstances)
    /\ \E i \in DOMAIN results : results[i].InstanceID # awsInstances[i].InstanceID

\* C20. Duplicate declared ids, last write wins: every result for an
\* observed instance whose id is declared is its comparison against the
\* declared instance that occurs last with that id; duplicates cause no
\* fault and no extra result.
LastWriteWins ==
    /\ ~panicked
    /\ Len(results) <= Len(awsInstances)
    /\ \A i \in DOMAIN results :
        results[i].InstanceID \in DeclaredIds =>
            \E p \in Positions :
                /\ awsInstances[p].InstanceID = results[i].InstanceID
                /\ results[i] = compareInstances(awsInstances[p],
                                    LastDeclared(results[i].InstanceID), filter)

\* the id i-1 is declared twice, first equal to the observed instance and
\* then with another instance type; two observed instances of that id were
\* both reported with the difference to the second
LastWriteWinsWitness ==
    /\ Returned
    /\ filter = {}
    /\ tfInstances = <<Declared1Same, Declared1Diff>>
    /\ Len(awsInstances) = 2
    /\ \A p \in Positions : awsInstances[p].InstanceID = "i-1"
    /\ Len(results) = 2
    /\ \A i \in DOMAIN results : DOMAIN results[i].Differences = {"instance_type"}

\* C21. Producer completion: the producer is never left blocked for good
\* on an enqueue. It is, in a state where observed instances are still
\* unsent, tasks is open and every worker has exited: no goroutine is left
\* to receive from tasks, so the producer never reaches close(tasks).
ProducerNeverStranded ==
    ~(/\ Launched
      /\ exited = maxWorkers
      /\ next \in Positions
      /\ ~tasksClosed)

\* C22. The engine does not mutate either side: no step of compareInstances,
\* compareSlice or CompareAllInstances changes an observed or a declared
\* instance (the order of its security groups and block devices included),
\* the filter, or the declared index once it is built.
NoMutation ==
    [][/\ awsInst' = awsInst
       /\ tfInst' = tfInst
       /\ cmpFilter' = cmpFilter
       /\ awsInstances' = awsInstances
       /\ tfInstances' = tfInstances
       /\ filter' = filter
       /\ mainPc # "index" => tfMap' = tfMap]_vars

\* compareInstances has returned a security-groups difference with the
\* sorted lists, and the observed instance still has its list unsorted
NoMutationWitness ==
    /\ call = "compareInstances"
    /\ cmpFilter = {}
    /\ awsInst.SecurityGroups.elems = <<Sg2, Sg1>>
    /\ "security_groups" \in DOMAIN result.Differences
    /\ result.Differences["security_groups"].AWS.elems = <<Sg1, Sg2>>

\* the document declares no aws_instance resource
DeclaresNoInstance(doc) ==
    \A i \in DOMAIN doc.resources : doc.resources[i].Type # "aws_instance"

\* C23. Nothing declared is not an error: a readable, well-formed state
\* document without an aws_instance resource, whether it lists other
\* resources or none at all, is loaded without error into an empty list,
\* and the run reports one missing-counterpart result for every retrieved
\* instance.
NothingDeclaredIsNoError ==
    (/\ cliPc \notin {"off", "start"}
     /\ stateFile.readable /\ stateFile.valid
     /\ DeclaresNoInstance(stateFile)) =>
        /\ cliErr = "nil"
        /\ loaded = <<>>
        /\ cliPc = "done" =>
            /\ Len(results) = Len(fetched)
            /\ \A i \in DOMAIN results : IsMissingEntry(results[i])

\* the positions of instanceIDs before k whose retrieval succeeded
RetrievedBefore(k) == {j \in DOMAIN instanceIDs : j < k /\ provider[j]}

\* C24. Retrieval failures become absence: a failed retrieval does not end
\* the run; the observed list holds the instances of the retrievals that
\* succeeded and nothing else, and the results of the run are one for each
\* of them, none for a retrieval that failed.
RetrievalFailureIsAbsence ==
    /\ cliPc = "failed" => parseTerraformState(stateFile).err # "nil"
    /\ Len(fetched) = Cardinality(RetrievedBefore(fetchAt))
    /\ \A id \in IdPool :
        IdCount(fetched, id) =
            Cardinality({j \in RetrievedBefore(fetchAt) : instanceIDs[j] = id})
    /\ cliPc = "done" =>
        /\ cliErr = "nil"
        /\ Len(results) = Cardinality(RetrievedBefore(fetchAt))
        /\ \A id \in IdPool : IdCount(results, id) = IdCount(fetched, id)

\* a run is done in which the retrieval of i-1 failed and that of i-2
\* succeeded: the one result is that of i-2
RetrievalFailureWitness ==
    /\ cliPc = "done"
    /\ instanceIDs = <<"i-1", "i-2">>
    /\ ~provider[1] /\ provider[2]
    /\ Len(results) = 1
    /\ results[1].InstanceID = "i-2"

\* C25. A dequeued task always completes: when CompareAllInstances has
\* returned, cancelled or not, every position a worker has dequeued has
\* its one result in the list, and the list is, as a multiset, the complete
\* results the inputs determine for the dequeued positions.
DequeuedTaskCompletes ==
    Returned =>
        /\ \A p \in Positions : delivered[p] = dequeued[p]
        /\ \A p \in Positions : dequeued[p] = 1 =>
            Occurrences(results, ExpectedResult(p)) =
                Cardinality({q \in Positions :
                                dequeued[q] = 1 /\ ExpectedResult(q) = ExpectedResult(p)})
        /\ Len(results) = Cardinality({p \in Positions : dequeued[p] = 1})

\* a cancelled call has returned while the producer still holds an unsent
\* instance, with the results of the two instances dequeued before
DequeuedTaskCompletesWitness ==
    /\ Returned /\ cancelled
    /\ next \in Positions
    /\ next = 3
    /\ Len(results) = 2

\* C26. The results channel is closed only after all maxWorkers workers
\* have exited: no worker is at, or panics on, a send on the closed channel,
\* and when the call has returned the channel is closed and every result a
\* worker sent is in the list once.
ClosedAfterWorkers ==
    /\ ~panicked
    /\ resultsClosed =>
        /\ exited = maxWorkers
        /\ idle = 0
        /\ \A p \in Positions : sending[p] = 0
    /\ Returned =>
        /\ resultsClosed
        /\ Len(results) = SumOver(delivered, Positions)
        /\ \A p \in Positions : delivered[p] = dequeued[p]

\* a call on more instances than workers has returned without
\* cancellation, the channel closed, with every result
ClosedAfterWorkersWitness ==
    /\ Returned /\ ~cancelled /\ resultsClosed
    /\ Len(awsInstances) > maxWorkers
    /\ Len(results) = Len(awsInstances)

\* C27. The field filter does not apply to the missing-counterpart entry:
\* under every filter, one that does not hold "terraform_state" included,
\* a result for an instance without a declared counterpart has
\* DriftDetected = true and the "terraform_state" difference, and a call
\* that returns without cancellation has one such result for each of these
\* instances.
FilterSparesMissingEntry ==
    /\ \A i \in DOMAIN results :
        results[i].InstanceID \notin DeclaredIds =>
            /\ results[i].DriftDetected
            /\ "terraform_state" \in DOMAIN results[i].Differences
            /\ ~shouldCompare("terraform_state", filter) =>
                    DOMAIN results[i].Differences \ filter = {"terraform_state"}
    /\ (Returned /\ ~cancelled) =>
            Cardinality(MissingEntries) = Cardinality(MissingPositions)

\* a call under the filter {tags} with nothing declared has returned a
\* missing-counterpart result for each of its instances
FilterSparesMissingEntryWitness ==
    /\ Returned
    /\ filter = {"tags"}
    /\ tfInstances = <<>>
    /\ Len(awsInstances) >= 2
    /\ Len(results) = Len(awsInstances)
    /\ \A i \in DOMAIN results : IsMissingEntry(results[i])

\* C28. Only observed instances are reported: every id in the list is the
\* id of an observed instance, a declared instance whose id is not observed
\* has no result, and an empty observed list gives an empty list.
OnlyObservedReported ==
    /\ IdsOf(results) \subseteq IdsOf(awsInstances)
    /\ \A id \in DeclaredIds \ IdsOf(awsInstances) : IdCount(results, id) = 0
    /\ Len(results) <= Len(awsInstances)
    /\ awsInstances = <<>> => results = <<>>

\* a call with the declared ids i-2 and i-3 and the observed id i-1 alone
\* has returned, without cancellation, the results of i-1 and no other
OnlyObservedReportedWitness ==
    /\ Returned /\ ~cancelled
    /\ tfInstances = <<Declared2Diff, Declared3>>
    /\ IdsOf(awsInstances) = {"i-1"}
    /\ Len(results) = Len(awsInstances)

\* C29. Block-device flattening loses no drift: when the two block-device
\* lists differ as multisets of (device_name, volume_id) pairs and the
\* field passes the filter, compareInstances writes a
\* "block_device_mappings" difference, a "|" inside a name or an id
\* notwithstanding.
FlatteningLosesNoDrift ==
    (/\ call = "compareInstances"
     /\ shouldCompare("block_device_mappings", cmpFilter)
     /\ ~SameMultiset(awsInst.BlockDeviceMappings.elems, tfInst.BlockDeviceMappings.elems)) =>
        "block_device_mappings" \in DOMAIN result.Differences

====
